---- MODULE Spec2Model ----
(***************************************************************************)
(* Model of the timetracker transition tool (src/src/main.rs): a one-shot  *)
(* migration of the legacy tables `activities` and `history` into the new  *)
(* tables `tt_activities` and `tt_history`.                                *)
(*                                                                         *)
(* Three specifications:                                                   *)
(*   Spec       the migration run(s) of main()                             *)
(*   SpecRound  round6 as a pure function on IEEE-754 binary64 values      *)
(*   SpecCal    the local-midnight / ISO week-year computation             *)
(***************************************************************************)
EXTENDS Integers, Naturals, Sequences, FiniteSets, TLC

VARIABLES
    fs,             \* path -> file content (the two database files)
    fk,             \* does the SQLite build enforce FOREIGN KEY clauses
    tz,             \* the local timezone of the machine
    run,            \* number of the current process run (1, 2, ...)
    pc,             \* position of the current run inside main()
    status,         \* "running", "done" (success message printed), "aborted" (panic)
    err,            \* kind of the panic when status = "aborted"
    path,           \* the operator's entry for the legacy database path
    dbpath_exists,  \* main()'s local of the same name
    oldact,         \* main()'s Vec<DBOldRowActivities>
    oldhis,         \* main()'s Vec<DBOldRowHistory>
    ia,             \* number of elements of oldact already inserted
    ih,             \* number of elements of oldhis already inserted
    fs0,            \* history variable: fs when the current run started
    prev,           \* history variable: path and outcome of the previous run
    probe           \* input/output record of the pure-function specifications

vars == <<fs, fk, tz, run, pc, status, err, path, dbpath_exists,
          oldact, oldhis, ia, ih, fs0, prev, probe>>

(***************************************************************************)
(* IEEE-754 binary64 arithmetic, as far as round6 needs it.                *)
(*                                                                         *)
(* A finite f64 is [s, m, e] with value (-1)^s * m * 2^e, where m is 0 or  *)
(* 2^52 <= m < 2^53.  m is a natural number written as a little-endian     *)
(* sequence of base-65536 limbs without leading zero limbs, because a      *)
(* 53-bit significand does not fit the 32-bit integers of TLC.  Zero is   *)
(* [s |-> 0, m |-> <<>>, e |-> 0] (-0.0 == 0.0 in Rust).  Exponents stay   *)
(* far inside the normal range, so subnormals and overflow do not occur.   *)
(***************************************************************************)
Base == 65536
MantBits == 53

Limbs == Seq(0..(Base - 1))
Floats == [s : {0, 1}, m : Limbs, e : Int]

FZero == [s |-> 0, m |-> << >>, e |-> 0]

\* The helpers below are functions, not operators: a function application
\* evaluates its arguments before the body, which keeps the recursions linear.
Trim[x \in Limbs] ==
    IF x = << >> THEN x
    ELSE IF x[Len(x)] = 0 THEN Trim[SubSeq(x, 1, Len(x) - 1)]
    ELSE x

MulCarry[x \in Limbs, c \in Nat, carry \in Nat] ==
    IF x = << >> THEN (IF carry = 0 THEN << >> ELSE <<carry>>)
    ELSE LET t == x[1] * c + carry
         IN  <<t % Base>> \o MulCarry[Tail(x), c, t \div Base]

\* x * c for a small c (c < 2^14)
MulSmall[x \in Limbs, c \in Nat] == Trim[MulCarry[x, c, 0]]

\* long division by a small c (c < 2^15), from the top limb down
DivRem[x \in Limbs, c \in Nat, rem \in Nat] ==
    IF x = << >> THEN [q |-> << >>, r |-> rem]
    ELSE LET t   == rem * Base + x[Len(x)]
             low == DivRem[SubSeq(x, 1, Len(x) - 1), c, t % c]
         IN  [q |-> low.q \o <<t \div c>>, r |-> low.r]

DivSmall[x \in Limbs, c \in Nat] ==
    LET d == DivRem[x, c, 0] IN [q |-> Trim[d.q], r |-> d.r]

AddCarry[x \in Limbs, carry \in Nat] ==
    IF carry = 0 THEN x
    ELSE IF x = << >> THEN <<carry>>
    ELSE LET t == x[1] + carry
         IN  <<t % Base>> \o AddCarry[Tail(x), t \div Base]

SmallBits[n \in Nat] == IF n = 0 THEN 0 ELSE 1 + SmallBits[n \div 2]

BitLen[x \in Limbs] ==
    IF x = << >> THEN 0 ELSE 16 * (Len(x) - 1) + SmallBits[x[Len(x)]]

IsOdd(x) == x # << >> /\ x[1] % 2 = 1

ShiftLeft[x \in Limbs, k \in Nat] ==
    IF k = 0 \/ x = << >> THEN x
    ELSE IF k >= 16 THEN ShiftLeft[<<0>> \o x, k - 16]
    ELSE MulSmall[x, 2 ^ k]

\* x shifted right by k bits; rnd is the last bit shifted out, st says
\* whether any bit shifted out before it was set
ShiftRightRS[x \in Limbs, k \in Nat, rnd \in {0, 1}, st \in BOOLEAN] ==
    IF k = 0 THEN [n |-> x, rnd |-> rnd, st |-> st]
    ELSE LET d == DivSmall[x, 2]
         IN  ShiftRightRS[d.q, k - 1, d.r, st \/ rnd = 1]

\* the f64 nearest to (-1)^s * (n + sticky fraction) * 2^e, ties to even
Normalize[s \in {0, 1}, n \in Limbs, e \in Int, sticky \in BOOLEAN] ==
    LET L == BitLen[n]
    IN  IF L = 0 THEN FZero
        ELSE IF L <= MantBits
        THEN [s |-> s, m |-> ShiftLeft[n, MantBits - L], e |-> e - (MantBits - L)]
        ELSE LET sh == ShiftRightRS[n, L - MantBits, 0, sticky]
                 up == sh.rnd = 1 /\ (sh.st \/ IsOdd(sh.n))
                 m1 == IF up THEN AddCarry[sh.n, 1] ELSE sh.n
             IN  IF BitLen[m1] > MantBits
                 THEN [s |-> s, m |-> DivSmall[m1, 2].q, e |-> e + (L - MantBits) + 1]
                 ELSE [s |-> s, m |-> m1, e |-> e + (L - MantBits)]

\* f * (c * 2^k) for a small c: the product is exact before the rounding
MulBy[f \in Floats, c \in Nat, k \in Nat] ==
    Normalize[f.s, MulSmall[f.m, c], f.e + k, FALSE]

\* f / (c * 2^k) for a small c: the significand gets 16 more bits, so that
\* the quotient has at least 55 bits and the remainder only decides the
\* sticky bit
DivBy[f \in Floats, c \in Nat, k \in Nat] ==
    IF f.m = << >> THEN FZero
    ELSE LET d == DivSmall[<<0>> \o f.m, c]
         IN  Normalize[f.s, d.q, f.e - 16 - k, d.r # 0]

\* f64::round : nearest integer, halfway cases away from zero
Round[f \in Floats] ==
    IF f.m = << >> \/ f.e >= 0 THEN f
    ELSE IF -f.e > MantBits THEN FZero
    ELSE LET sh == ShiftRightRS[f.m, -f.e, 0, FALSE]
         IN  Normalize[f.s, AddCarry[sh.n, sh.rnd], 0, FALSE]

\* val * 1_000_000. and x / 1_000_000. : 10^6 = 15625 * 2^6
Mul1e6(f) == MulBy[f, 15625, 6]

\* mutation: the divisor mistyped as 100_000. = 3125 * 2^5
Div1e6_typo(f) == DivBy[f, 3125, 5]

Div1e6(f) == DivBy[f, 15625, 6]

round6(val) == Div1e6(Round[Mul1e6(val)])

\* |f| < 2^k
BelowPow2(f, k) == f.m = << >> \/ f.e + MantBits <= k

Neg(f) == IF f.m = << >> THEN f ELSE [f EXCEPT !.s = 1 - f.s]

\* the f64 k units in the last place above f (same binade)
Ulps(f, k) == Normalize[f.s, AddCarry[f.m, k], f.e, FALSE]

\* shorthand for writing f64 literals: limbs (lowest first) and exponent
F64(limbs, e) == [s |-> 0, m |-> limbs, e |-> e]

(***************************************************************************)
(* Calendar: chrono::Local.with_ymd_and_hms(y, m, d, 0, 0, 0).unwrap()     *)
(* followed by .iso_week().year()                                          *)
(***************************************************************************)
IsLeap(y) == (y % 4 = 0 /\ y % 100 # 0) \/ y % 400 = 0

DaysInMonth(y, m) ==
    IF m = 2 THEN (IF IsLeap(y) THEN 29 ELSE 28)
    ELSE IF m \in {4, 6, 9, 11} THEN 30 ELSE 31

\* mutation: day checked against 1..31 only (a date such as Feb 30 then
\* wraps into the next month)
ValidYmd_wrap(y, m, d) == m \in 1..12 /\ d \in 1..31

\* NaiveDate::from_ymd_opt(y, m, d).is_some()
ValidYmd(y, m, d) == m \in 1..12 /\ d >= 1 /\ d <= DaysInMonth(y, m)

RECURSIVE DaysBeforeMonth(_, _)
DaysBeforeMonth(y, m) ==
    IF m <= 1 THEN 0 ELSE DaysBeforeMonth(y, m - 1) + DaysInMonth(y, m - 1)

\* day of the year, 1..366 (days past the end of a month run on into the
\* following one)
Ordinal(y, m, d) == DaysBeforeMonth(y, m) + d

\* days from 0001-01-01 (a Monday) to the last day of year y - 1
DaysBeforeYear(y) ==
    365 * (y - 1) + ((y - 1) \div 4) - ((y - 1) \div 100) + ((y - 1) \div 400)

\* ISO weekday of the day with the given ordinal: 1 = Monday .. 7 = Sunday
Weekday(y, ord) == ((DaysBeforeYear(y) + ord - 1) % 7) + 1

\* number of ISO weeks of year y: 53 when it starts on a Thursday, or on a
\* Wednesday and is a leap year
WeeksInYear(y) ==
    IF Weekday(y, 1) = 4 \/ (Weekday(y, 1) = 3 /\ IsLeap(y)) THEN 53 ELSE 52

\* Datelike::iso_week().year() of the date (y, m, d)
IsoWeekYear(y, m, d) ==
    LET ord  == Ordinal(y, m, d)
        week == (ord - Weekday(y, ord) + 10) \div 7
    IN  IF week < 1 THEN y - 1
        ELSE IF week > WeeksInYear(y) THEN y + 1
        ELSE y

\* The local timezones of the model, and the local dates on which 00:00:00
\* does not exist (clocks are set forward at midnight) or exists twice
\* (clocks are set back to midnight), from the IANA time zone database.
TimeZones == {"UTC", "America/Sao_Paulo", "America/Havana"}

MidnightGaps(zone) ==
    IF zone = "America/Sao_Paulo"
    THEN {<<2015, 10, 18>>, <<2016, 10, 16>>, <<2017, 10, 15>>, <<2018, 11, 4>>}
    ELSE IF zone = "America/Havana"
    THEN {<<2015, 3, 8>>, <<2016, 3, 13>>, <<2017, 3, 12>>, <<2018, 3, 11>>,
          <<2019, 3, 10>>, <<2020, 3, 8>>, <<2021, 3, 14>>, <<2022, 3, 13>>}
    ELSE {}

MidnightFolds(zone) ==
    IF zone = "America/Havana"
    THEN {<<2015, 11, 1>>, <<2016, 11, 6>>, <<2017, 11, 5>>, <<2018, 11, 4>>,
          <<2019, 11, 3>>, <<2020, 11, 1>>, <<2021, 11, 7>>, <<2022, 11, 6>>}
    ELSE {}

\* TimeZone::with_ymd_and_hms(y, m, d, 0, 0, 0) for chrono::Local: the
\* variant of the LocalResult
WithYmdAndHms(zone, y, m, d) ==
    IF ~ValidYmd(y, m, d) THEN "None"
    ELSE IF <<y, m, d>> \in MidnightGaps(zone) THEN "None"
    ELSE IF <<y, m, d>> \in MidnightFolds(zone) THEN "Ambiguous"
    ELSE "Single"

\* main() lines 240-246 and 258: the conversions of month and day to u32,
\* the localisation, its unwrap, and the week-numbering year of the result
LocalIsoWeekYear(zone, year, month, day) ==
    IF month < 0 \/ day < 0
    THEN [ok |-> FALSE, err |-> "TryFromIntError", value |-> 0]
    ELSE IF WithYmdAndHms(zone, year, month, day) = "None"
    THEN [ok |-> FALSE, err |-> "InvalidDateError", value |-> 0]
    ELSE IF WithYmdAndHms(zone, year, month, day) = "Ambiguous"
    THEN [ok |-> FALSE, err |-> "AmbiguousLocalTime", value |-> 0]
    ELSE [ok |-> TRUE, err |-> "", value |-> IsoWeekYear(year, month, day)]

(***************************************************************************)
(* The two stores.  A database file is a record: whether the file exists   *)
(* and, for each of the four tables, whether it exists and its rows in     *)
(* insertion order.                                                        *)
(***************************************************************************)
MaxAct == 2      \* longest legacy `activities` table
MaxHis == 2      \* longest legacy `history` table
MaxRuns == 2     \* number of times the operator starts the tool

NoTable == [present |-> FALSE, rows |-> << >>]
EmptyTable == [present |-> TRUE, rows |-> << >>]
Table(rows) == [present |-> TRUE, rows |-> rows]

NoFile == [exists |-> FALSE, activities |-> NoTable, history |-> NoTable,
           tt_activities |-> NoTable, tt_history |-> NoTable]
EmptyFile == [NoFile EXCEPT !.exists = TRUE]

\* the legacy database somewhere in the operator's home, and
\* ProjectDirs::from("dev", "sintheta", "timetracker").config_dir() / DBNAME
OldPath == "/home/user/foo/bar/productivity.db"
NewPath == "/home/user/.config/timetracker/productivity.db"
MissingPath == "/home/user/typo.db"
PathInputs == {OldPath, NewPath, MissingPath}

FileAt(files, p) == IF p \in DOMAIN files THEN files[p] ELSE NoFile

\* rows of the legacy table `activities` (struct DBOldRowActivities)
LegacyActivities == <<
    [id |-> 1, group_id |-> 9, name |-> "Coding", added_when |-> "2020-01-01",
     is_activated |-> 1,
     hours_total |-> F64(<<52649, 43687, 43690, 20>>, -49)],   \* 10.333333333
    [id |-> 2, group_id |-> 7, name |-> "Reading", added_when |-> "2021-06-15",
     is_activated |-> 0,
     hours_total |-> F64(<<13108, 13107, 13107, 19>>, -54)] >> \* 0.1 + 0.2

\* rows of the legacy table `history` (struct DBOldRowHistory)
LegacyHistory == <<
    [id_activity |-> 1, year |-> 2018, month |-> 12, day |-> 31, weeknumber |-> 1,
     hours_on_day |-> F64(<<56963, 17179, 0, 16>>, -51),       \* 2.0000005
     date |-> "2018-12-31"],
    [id_activity |-> 2, year |-> 2018, month |-> 1, day |-> 1, weeknumber |-> 0,
     hours_on_day |-> F64(<<0, 0, 0, 30>>, -50),               \* 7.5
     date |-> "2018-01-01"],
    [id_activity |-> 1, year |-> 2018, month |-> 11, day |-> 4, weeknumber |-> 44,
     hours_on_day |-> F64(<<37434, 40907, 9228, 30>>, -36),    \* 123456.7890125
     date |-> "2018-11-04"],
    [id_activity |-> 1, year |-> 2018, month |-> 2, day |-> 30, weeknumber |-> 9,
     hours_on_day |-> F64(<<0, 0, 0, 30>>, -50),
     date |-> "2018-02-30"],
    [id_activity |-> 2, year |-> 2018, month |-> -1, day |-> 5, weeknumber |-> 1,
     hours_on_day |-> F64(<<0, 0, 0, 30>>, -50),
     date |-> "2018--1-05"] >>

\* a row the new timetracker itself has put into tt_activities
ExistingActivity ==
    [id |-> 2, name |-> "Existing", added |-> "2022-02-02", isactive |-> 1,
     hourstotal |-> F64(<<0, 0, 0, 30>>, -50)]

IsInjective(q) == \A i, j \in DOMAIN q : q[i] = q[j] => i = j

\* contents of the legacy `activities` table: `id` is its key
ActivityTables ==
    {[i \in DOMAIN q |-> LegacyActivities[q[i]]] :
        q \in {r \in UNION {[1..n -> DOMAIN LegacyActivities] : n \in 0..MaxAct} :
                 IsInjective(r)}}

HistoryTables ==
    {[i \in DOMAIN q |-> LegacyHistory[q[i]]] :
        q \in UNION {[1..n -> DOMAIN LegacyHistory] : n \in 0..MaxHis}}

LegacyFile(acts, his) ==
    [EmptyFile EXCEPT !.activities = Table(acts), !.history = Table(his)]

\* what can lie at the destination path before the first run
NewFiles(acts, his) ==
    { NoFile,
      EmptyFile,
      [EmptyFile EXCEPT !.tt_activities = EmptyTable, !.tt_history = EmptyTable],
      [EmptyFile EXCEPT !.tt_activities = Table(<<ExistingActivity>>),
                        !.tt_history = EmptyTable],
      LegacyFile(acts, his),
      [LegacyFile(acts, his) EXCEPT !.tt_activities = EmptyTable,
                                    !.tt_history = EmptyTable] }

(***************************************************************************)
(* The schema mapping of the two INSERT statements                         *)
(***************************************************************************)
\* mutation: hours_total stored as read
MapActivity_unrounded(e) ==
    [id |-> e.id, name |-> e.name, added |-> e.added_when,
     isactive |-> e.is_activated, hourstotal |-> e.hours_total]

\* params! of the INSERT INTO tt_activities
MapActivity(e) ==
    [id |-> e.id, name |-> e.name, added |-> e.added_when,
     isactive |-> e.is_activated, hourstotal |-> round6(e.hours_total)]

\* mutation: the calendar year stored as week-numbering year
MapHistory_calendarYear(e, isoyear) ==
    [id |-> e.id_activity, year |-> e.year, month |-> e.month, day |-> e.day,
     isoweek |-> e.weeknumber, isoweekyear |-> e.year,
     hoursonday |-> round6(e.hours_on_day), date |-> e.date]

\* params! of the INSERT INTO tt_history; isoyear is dtlocal.iso_week().year()
MapHistory(e, isoyear) ==
    [id |-> e.id_activity, year |-> e.year, month |-> e.month, day |-> e.day,
     isoweek |-> e.weeknumber, isoweekyear |-> isoyear,
     hoursonday |-> round6(e.hours_on_day), date |-> e.date]

HasId(rows, id) == \E i \in DOMAIN rows : rows[i].id = id

\* mutation: no key on tt_activities.id
InsertActivityRow_nokey(file, row) ==
    IF ~file.tt_activities.present
    THEN [ok |-> FALSE, err |-> "NoSuchTableError", file |-> file]
    ELSE [ok |-> TRUE, err |-> "",
          file |-> [file EXCEPT !.tt_activities.rows = Append(@, row)]]

\* INSERT INTO tt_activities: id is INTEGER PRIMARY KEY
InsertActivityRow(file, row) ==
    IF ~file.tt_activities.present
    THEN [ok |-> FALSE, err |-> "NoSuchTableError", file |-> file]
    ELSE IF HasId(file.tt_activities.rows, row.id)
    THEN [ok |-> FALSE, err |-> "UniqueConstraintError", file |-> file]
    ELSE [ok |-> TRUE, err |-> "",
          file |-> [file EXCEPT !.tt_activities.rows = Append(@, row)]]

\* INSERT INTO tt_history: no key; FOREIGN KEY (id) REFERENCES tt_activities(id)
\* is checked only by a build that enforces foreign keys
InsertHistoryRow(file, row, enforce) ==
    IF ~file.tt_history.present
    THEN [ok |-> FALSE, err |-> "NoSuchTableError", file |-> file]
    ELSE IF enforce /\ ~file.tt_activities.present
    THEN [ok |-> FALSE, err |-> "NoSuchTableError", file |-> file]
    ELSE IF enforce /\ ~HasId(file.tt_activities.rows, row.id)
    THEN [ok |-> FALSE, err |-> "ForeignKeyError", file |-> file]
    ELSE [ok |-> TRUE, err |-> "",
          file |-> [file EXCEPT !.tt_history.rows = Append(@, row)]]

\* the two CREATE TABLE statements, run only when the file did not exist
\* when main() looked
EnsureSchemaOn(file, existed) ==
    IF existed THEN [ok |-> TRUE, err |-> "", file |-> file]
    ELSE IF file.tt_activities.present
    THEN [ok |-> FALSE, err |-> "TableExistsError", file |-> file]
    ELSE IF file.tt_history.present
    THEN [ok |-> FALSE, err |-> "TableExistsError",
          file |-> [file EXCEPT !.tt_activities = EmptyTable]]
    ELSE [ok |-> TRUE, err |-> "",
          file |-> [file EXCEPT !.tt_activities = EmptyTable,
                                !.tt_history = EmptyTable]]

\* mutation: the writes of a run wrapped in one transaction
AfterFailedInsert_rollback(now, atStart) == atStart

\* the files after an INSERT has failed and unwrap() has panicked: every
\* execute() before it was committed on its own
AfterFailedInsert(now, atStart) == now

\* mutation: the activities are written before the history is read
StageAfter_streaming(s) ==
    CASE s = "start"     -> "check"
      [] s = "check"     -> "read_act"
      [] s = "read_act"  -> "open_new"
      [] s = "open_new"  -> "schema"
      [] s = "schema"    -> "write_act"
      [] s = "write_act" -> "read_his"
      [] s = "read_his"  -> "write_his"
      [] OTHER           -> "finish"

\* the order of the sections of main()
StageAfter(s) ==
    CASE s = "start"     -> "check"
      [] s = "check"     -> "read_act"
      [] s = "read_act"  -> "read_his"
      [] s = "read_his"  -> "open_new"
      [] s = "open_new"  -> "schema"
      [] s = "schema"    -> "write_act"
      [] s = "write_act" -> "write_his"
      [] OTHER           -> "finish"

(***************************************************************************)
(* main()                                                                  *)
(***************************************************************************)
NoProbe == [kind |-> "none"]

\* the timezones the migration is run in: one without and one with a
\* transition at midnight on a date of LegacyHistory
RunZones == {"UTC", "America/Sao_Paulo"}

Init ==
    /\ fk \in BOOLEAN
    /\ tz \in RunZones
    /\ \E acts \in ActivityTables, his \in HistoryTables :
          \E new \in NewFiles(acts, his) :
             fs = [p \in {OldPath, NewPath} |->
                      IF p = OldPath THEN LegacyFile(acts, his) ELSE new]
    /\ fs0 = fs
    /\ run = 1
    /\ pc = "start"
    /\ status = "running"
    /\ err = ""
    /\ path = ""
    /\ dbpath_exists = FALSE
    /\ oldact = << >>
    /\ oldhis = << >>
    /\ ia = 0
    /\ ih = 0
    /\ prev = [status |-> "none", path |-> ""]
    /\ probe = NoProbe

\* unwrap()/expect()/panic!: the process ends where it stands
Abort(e) ==
    /\ status' = "aborted"
    /\ err' = e
    /\ UNCHANGED <<fs, fk, tz, run, pc, path, dbpath_exists, oldact, oldhis,
                   ia, ih, fs0, prev, probe>>

Goto(s) ==
    /\ pc' = s
    /\ UNCHANGED <<status, err>>

\* lines 84-101: the prompt, and Connection::open_with_flags(READ_ONLY)
OpenOld ==
    /\ status = "running" /\ pc = "start"
    /\ \E entry \in PathInputs :
          /\ path' = entry
          /\ IF FileAt(fs, entry).exists
             THEN /\ Goto(StageAfter("start"))
             ELSE /\ status' = "aborted"
                  /\ err' = "StoreAccessError"
                  /\ pc' = pc
    /\ UNCHANGED <<fs, fk, tz, run, dbpath_exists, oldact, oldhis, ia, ih,
                   fs0, prev, probe>>

\* lines 107-151: the destination path, dbpath.exists(), create_dir_all
\* (which can fail only when the folder, and so the file, is missing)
CheckPaths ==
    /\ status = "running" /\ pc = "check"
    /\ \/ /\ dbpath_exists' = fs[NewPath].exists
          /\ Goto(StageAfter("check"))
          /\ UNCHANGED <<fs, fk, tz, run, path, oldact, oldhis, ia, ih, fs0,
                         prev, probe>>
       \/ /\ ~fs[NewPath].exists
          /\ Abort("IOError")

\* lines 157-174: SELECT * FROM activities, one row pushed per step
ReadActivities ==
    /\ status = "running" /\ pc = "read_act"
    /\ LET t == FileAt(fs, path).activities
       IN  IF ~t.present THEN Abort("SchemaMismatchError")
           ELSE IF Len(oldact) < Len(t.rows)
           THEN /\ oldact' = Append(oldact, t.rows[Len(oldact) + 1])
                /\ UNCHANGED <<fs, fk, tz, run, pc, status, err, path,
                               dbpath_exists, oldhis, ia, ih, fs0, prev, probe>>
           ELSE /\ Goto(StageAfter("read_act"))
                /\ UNCHANGED <<fs, fk, tz, run, path, dbpath_exists, oldact,
                               oldhis, ia, ih, fs0, prev, probe>>

\* lines 180-197: SELECT * FROM history, one row pushed per step
ReadHistory ==
    /\ status = "running" /\ pc = "read_his"
    /\ LET t == FileAt(fs, path).history
       IN  IF ~t.present THEN Abort("SchemaMismatchError")
           ELSE IF Len(oldhis) < Len(t.rows)
           THEN /\ oldhis' = Append(oldhis, t.rows[Len(oldhis) + 1])
                /\ UNCHANGED <<fs, fk, tz, run, pc, status, err, path,
                               dbpath_exists, oldact, ia, ih, fs0, prev, probe>>
           ELSE /\ Goto(StageAfter("read_his"))
                /\ UNCHANGED <<fs, fk, tz, run, path, dbpath_exists, oldact,
                               oldhis, ia, ih, fs0, prev, probe>>

\* line 203: Connection::open(dbpath) creates the file when it is missing
OpenNew ==
    /\ status = "running" /\ pc = "open_new"
    /\ fs' = [fs EXCEPT ![NewPath].exists = TRUE]
    /\ Goto(StageAfter("open_new"))
    /\ UNCHANGED <<fk, tz, run, path, dbpath_exists, oldact, oldhis, ia, ih,
                   fs0, prev, probe>>

\* lines 209-213
EnsureSchema ==
    /\ status = "running" /\ pc = "schema"
    /\ LET r == EnsureSchemaOn(fs[NewPath], dbpath_exists)
       IN  /\ fs' = [fs EXCEPT ![NewPath] = r.file]
           /\ IF r.ok THEN Goto(StageAfter("schema"))
              ELSE status' = "aborted" /\ err' = r.err /\ pc' = pc
    /\ UNCHANGED <<fk, tz, run, path, dbpath_exists, oldact, oldhis, ia, ih,
                   fs0, prev, probe>>

\* lines 219-232: one iteration of `for e in oldact`, or the end of the loop
InsertActivity ==
    /\ status = "running" /\ pc = "write_act"
    /\ IF ia < Len(oldact)
       THEN LET r == InsertActivityRow(fs[NewPath], MapActivity(oldact[ia + 1]))
            IN  IF r.ok
                THEN /\ fs' = [fs EXCEPT ![NewPath] = r.file]
                     /\ ia' = ia + 1
                     /\ UNCHANGED <<pc, status, err>>
                ELSE /\ fs' = AfterFailedInsert(fs, fs0)
                     /\ status' = "aborted"
                     /\ err' = r.err
                     /\ UNCHANGED <<pc, ia>>
       ELSE /\ Goto(StageAfter("write_act"))
            /\ UNCHANGED <<fs, ia>>
    /\ UNCHANGED <<fk, tz, run, path, dbpath_exists, oldact, oldhis, ih, fs0,
                   prev, probe>>

\* lines 238-262: one iteration of `for e in oldhis`, or the end of the loop
InsertHistory ==
    /\ status = "running" /\ pc = "write_his"
    /\ IF ih < Len(oldhis)
       THEN LET e == oldhis[ih + 1]
                d == LocalIsoWeekYear(tz, e.year, e.month, e.day)
                r == InsertHistoryRow(fs[NewPath], MapHistory(e, d.value), fk)
            IN  IF ~d.ok
                THEN /\ status' = "aborted"
                     /\ err' = d.err
                     /\ UNCHANGED <<fs, pc, ih>>
                ELSE IF r.ok
                THEN /\ fs' = [fs EXCEPT ![NewPath] = r.file]
                     /\ ih' = ih + 1
                     /\ UNCHANGED <<pc, status, err>>
                ELSE /\ fs' = AfterFailedInsert(fs, fs0)
                     /\ status' = "aborted"
                     /\ err' = r.err
                     /\ UNCHANGED <<pc, ih>>
       ELSE /\ Goto(StageAfter("write_his"))
            /\ UNCHANGED <<fs, ih>>
    /\ UNCHANGED <<fk, tz, run, path, dbpath_exists, oldact, oldhis, ia, fs0,
                   prev, probe>>

\* line 264: "Done, if the program ran this far it worked"
Finish ==
    /\ status = "running" /\ pc = "finish"
    /\ status' = "done"
    /\ UNCHANGED <<fs, fk, tz, run, pc, err, path, dbpath_exists, oldact,
                   oldhis, ia, ih, fs0, prev, probe>>

\* the operator starts the tool again: a new process, the same files
Rerun ==
    /\ status \in {"done", "aborted"}
    /\ run < MaxRuns
    /\ run' = run + 1
    /\ prev' = [status |-> status, path |-> path]
    /\ fs0' = fs
    /\ pc' = "start"
    /\ status' = "running"
    /\ err' = ""
    /\ path' = ""
    /\ dbpath_exists' = FALSE
    /\ oldact' = << >>
    /\ oldhis' = << >>
    /\ ia' = 0
    /\ ih' = 0
    /\ UNCHANGED <<fs, fk, tz, probe>>

Next ==
    \/ OpenOld
    \/ CheckPaths
    \/ ReadActivities
    \/ ReadHistory
    \/ OpenNew
    \/ EnsureSchema
    \/ InsertActivity
    \/ InsertHistory
    \/ Finish
    \/ Rerun

Spec == Init /\ [][Next]_vars

(***************************************************************************)
(* round6 and the calendar computation on their own                        *)
(***************************************************************************)
MaxUlps == 7     \* neighbours (in units in the last place) of each sample
YearLo == 2016
YearHi == 2020
MaxMonth == 13
MaxDay == 32

\* main() is not running
Idle ==
    /\ fs = [p \in {OldPath, NewPath} |-> NoFile]
    /\ fs0 = fs
    /\ fk = FALSE
    /\ run = 0
    /\ pc = "start"
    /\ status = "idle"
    /\ err = ""
    /\ path = ""
    /\ dbpath_exists = FALSE
    /\ oldact = << >>
    /\ oldhis = << >>
    /\ ia = 0
    /\ ih = 0
    /\ prev = [status |-> "none", path |-> ""]

HoursSamples ==
    { FZero,
      F64(<<52649, 43687, 43690, 20>>, -49),    \* 10.333333333
      F64(<<56963, 17179, 0, 16>>, -51),        \* 2.0000005
      F64(<<13108, 13107, 13107, 19>>, -54),    \* 0.30000000000000004
      F64(<<37434, 40907, 9228, 30>>, -36),     \* 123456.7890125
      F64(<<44872, 39612, 55282, 26>>, -74),    \* 0.0000004
      F64(<<0, 0, 0, 30>>, -50),                \* 7.5
      F64(<<65532, 65535, 65535, 31>>, -23),    \* 1073741823.9999995
      F64(<<53870, 44253, 38667, 16>>, -20) }   \* 4453350093.863874

HoursInputs ==
    UNION {{Ulps(b, k), Neg(Ulps(b, k))} : b \in HoursSamples, k \in 0..MaxUlps}

RoundInit ==
    /\ Idle
    /\ tz = "UTC"
    /\ probe \in {[kind |-> "round", step |-> 0, v |-> x, r1 |-> FZero, r2 |-> FZero] :
                    x \in HoursInputs}

RoundOnce ==
    /\ probe.kind = "round" /\ probe.step = 0
    /\ probe' = [probe EXCEPT !.step = 1, !.r1 = round6(probe.v)]
    /\ UNCHANGED <<fs, fk, tz, run, pc, status, err, path, dbpath_exists,
                   oldact, oldhis, ia, ih, fs0, prev>>

RoundTwice ==
    /\ probe.kind = "round" /\ probe.step = 1
    /\ probe' = [probe EXCEPT !.step = 2, !.r2 = round6(probe.r1)]
    /\ UNCHANGED <<fs, fk, tz, run, pc, status, err, path, dbpath_exists,
                   oldact, oldhis, ia, ih, fs0, prev>>

RoundNext == RoundOnce \/ RoundTwice

SpecRound == RoundInit /\ [][RoundNext]_vars

CalInit ==
    /\ Idle
    /\ tz \in TimeZones
    /\ probe \in {[kind |-> "cal", step |-> 0, year |-> y, month |-> m, day |-> d,
                   res |-> [ok |-> FALSE, err |-> "", value |-> 0]] :
                    y \in YearLo..YearHi, m \in (-1)..MaxMonth, d \in (-1)..MaxDay}

CalCompute ==
    /\ probe.kind = "cal" /\ probe.step = 0
    /\ probe' = [probe EXCEPT !.step = 1,
                   !.res = LocalIsoWeekYear(tz, probe.year, probe.month, probe.day)]
    /\ UNCHANGED <<fs, fk, tz, run, pc, status, err, path, dbpath_exists,
                   oldact, oldhis, ia, ih, fs0, prev>>

CalNext == CalCompute

SpecCal == CalInit /\ [][CalNext]_vars

(***************************************************************************)
(* Properties                                                              *)
(***************************************************************************)
Dest == fs[NewPath]
Dest0 == fs0[NewPath]
Legacy == FileAt(fs, path)

ReadsComplete ==
    /\ Legacy.activities.present /\ oldact = Legacy.activities.rows
    /\ Legacy.history.present /\ oldhis = Legacy.history.rows

RowsWritten(acts, his, na, nh) ==
    /\ Dest.tt_activities.rows =
          Dest0.tt_activities.rows \o [i \in 1..na |-> MapActivity(acts[i])]
    /\ Dest.tt_history.rows =
          Dest0.tt_history.rows \o
             [i \in 1..nh |->
                MapHistory(his[i], IsoWeekYear(his[i].year, his[i].month, his[i].day))]

C1_Step ==
    LET actsCh   == fs'[NewPath].tt_activities.rows # Dest.tt_activities.rows
        hisCh    == fs'[NewPath].tt_history.rows # Dest.tt_history.rows
        schemaCh == \/ fs'[NewPath].tt_activities.present # Dest.tt_activities.present
                    \/ fs'[NewPath].tt_history.present # Dest.tt_history.present
    IN  /\ (run' = run /\ oldhis' # oldhis) =>
              (Legacy.activities.present /\ oldact = Legacy.activities.rows)
        /\ schemaCh => (ReadsComplete /\ ia = 0 /\ ih = 0 /\ ~actsCh /\ ~hisCh)
        /\ actsCh => (ReadsComplete /\ pc = "write_act" /\ ih = 0 /\ ~hisCh)
        /\ hisCh => (ReadsComplete /\ pc = "write_his" /\ ia = Len(oldact))

\* C1: the steps of a run happen in the order read activities, read history,
\* ensure schema, write activities, write history: history is read only after
\* all activities are read, tables are created and rows inserted only after
\* both legacy tables are read completely, and tt_history is written only
\* after every activity of the run has been inserted.
C1_FixedOrder == [][C1_Step]_vars

C1_Witness == status = "done" /\ ia >= 1 /\ ih = 2 /\ Len(oldhis) = 2

\* C2: after the ensure-schema step both destination tables exist, whatever
\* lay at the destination before (no file, a file without the tables, a file
\* with them); the step does not fail and leaves existing rows as they were.
C2_SchemaEnsured ==
    /\ (pc = "schema") => (status # "aborted")
    /\ (status = "running" /\ pc = "write_act" /\ ia = 0) =>
          /\ Dest.tt_activities.present
          /\ Dest.tt_history.present
          /\ Dest.tt_activities.rows = Dest0.tt_activities.rows
          /\ Dest.tt_history.rows = Dest0.tt_history.rows

\* a run on the path of the previous run, which had ended with the success
\* message
IsRerun == run > 1 /\ prev.status = "done" /\ path # "" /\ path = prev.path

RerunFailsFast ==
    /\ status # "done"
    /\ pc \notin {"write_his", "finish"}
    /\ ia = 0 /\ ih = 0
    /\ Dest.tt_activities.rows = Dest0.tt_activities.rows
    /\ Dest.tt_history.rows = Dest0.tt_history.rows
    /\ (status = "aborted") => (pc = "write_act" /\ err = "UniqueConstraintError")

\* C3 as stated: a re-run with the same legacy data on the destination an
\* earlier run populated fails on the first activity insert with a duplicate
\* key and adds no row, for every legacy dataset (also one with history rows
\* and no activities).
C3_RerunFails_AnyDataset ==
    (IsRerun /\ (Legacy.activities.rows # << >> \/ Legacy.history.rows # << >>))
       => RerunFailsFast

\* C3 amended: the same, for every legacy dataset with at least one activity.
C3_RerunFails == (IsRerun /\ Legacy.activities.rows # << >>) => RerunFailsFast

C3_Witness ==
    /\ IsRerun /\ Legacy.activities.rows # << >> /\ Legacy.history.rows # << >>
    /\ status = "aborted" /\ pc = "write_act" /\ err = "UniqueConstraintError"

\* C4: after a successful run on an empty destination tt_activities holds one
\* row per legacy activity and nothing else, with exactly the columns id, name,
\* added, isactive, hourstotal (no group_id): id, name, added_when and
\* is_activated verbatim, and hours_total rounded to six decimals.
C4_ActivitiesMapped ==
    (status = "done" /\ Dest0.tt_activities.rows = << >>) =>
        LET rows == Dest.tt_activities.rows
            leg  == Legacy.activities.rows
        IN  /\ Len(rows) = Len(leg)
            /\ \A i \in 1..Len(leg) :
                  /\ DOMAIN rows[i] = {"id", "name", "added", "isactive", "hourstotal"}
                  /\ rows[i].id = leg[i].id
                  /\ rows[i].name = leg[i].name
                  /\ rows[i].added = leg[i].added_when
                  /\ rows[i].isactive = leg[i].is_activated
                  /\ rows[i].hourstotal = round6(leg[i].hours_total)

C4_Witness ==
    /\ status = "done" /\ Dest0.tt_activities.rows = << >>
    /\ Len(Dest.tt_activities.rows) = 2
    /\ \E i \in 1..Len(Dest.tt_activities.rows) :
          Dest.tt_activities.rows[i].hourstotal # Legacy.activities.rows[i].hours_total

\* C5: after a successful run tt_history has gained exactly one row per legacy
\* history entry, in order: id, year, month, day, date verbatim, isoweek the
\* legacy weeknumber, isoweekyear the ISO week-numbering year of the date,
\* hoursonday the six-decimal rounding of hours_on_day.
C5_HistoryMapped ==
    (status = "done") =>
        LET leg == Legacy.history.rows
        IN  Dest.tt_history.rows =
               Dest0.tt_history.rows \o
                  [i \in 1..Len(leg) |->
                     [id |-> leg[i].id_activity, year |-> leg[i].year,
                      month |-> leg[i].month, day |-> leg[i].day,
                      isoweek |-> leg[i].weeknumber,
                      isoweekyear |-> IsoWeekYear(leg[i].year, leg[i].month, leg[i].day),
                      hoursonday |-> round6(leg[i].hours_on_day),
                      date |-> leg[i].date]]

C5_Witness ==
    /\ status = "done"
    /\ \E i \in 1..Len(Dest.tt_history.rows) :
          LET r == Dest.tt_history.rows[i]
          IN  r.isoweekyear # r.year /\ r.isoweek = 1 /\ r.date = "2018-12-31"
    /\ \E i \in 1..Len(Dest.tt_history.rows) :
          Dest.tt_history.rows[i].isoweek = 0

\* C6: for every valid date, in every local timezone, the week-year
\* computation returns a value; the value is one of year - 1, year, year + 1,
\* is year on July 15, 2019 for 2018-12-31 and 2018 for 2018-01-01.
C6_WeekYearDefined ==
    (probe.kind = "cal" /\ probe.step = 1
        /\ probe.month \in 1..12 /\ probe.day >= 1
        /\ probe.day <= DaysInMonth(probe.year, probe.month)) =>
       /\ probe.res.ok
       /\ probe.res.value \in {probe.year - 1, probe.year, probe.year + 1}
       /\ (probe.month = 7 /\ probe.day = 15) => probe.res.value = probe.year
       /\ (probe.year = 2018 /\ probe.month = 12 /\ probe.day = 31) =>
             probe.res.value = 2019
       /\ (probe.year = 2018 /\ probe.month = 1 /\ probe.day = 1) =>
             probe.res.value = 2018

InsertErrors == {"UniqueConstraintError", "NoSuchTableError", "ForeignKeyError"}

FailedInsert ==
    status = "aborted" /\ pc \in {"write_act", "write_his"} /\ err \in InsertErrors

C7_State ==
    FailedInsert =>
        /\ RowsWritten(oldact, oldhis, ia, ih)
        /\ (pc = "write_act") => (ih = 0)
        /\ (pc = "write_his") => (ia = Len(oldact))

C7_Step == (status = "aborted") => (fs' = fs /\ run' = run + 1 /\ status' = "running")

\* C7: a failure aborts the run at once and nothing is rolled back: when the
\* k-th insert fails the destination holds what it held before the run plus
\* the k-1 rows (ia activities, ih history entries) already inserted, and
\* after any abort the files stay as they are and the only step left is the
\* start of another run (no further insert, no success message).
C7_AbortNoRollback == []C7_State /\ [][C7_Step]_vars

C7_Witness == FailedInsert /\ pc = "write_his" /\ ia >= 1 /\ ih >= 1

\* C8: the file of the legacy store is never changed, whatever path the
\* operator entered (also the path of the destination) and however the run
\* ends.
C8_LegacyUntouched == (path \in DOMAIN fs) => (fs[path] = fs0[path])

InvalidEntry(e) ==
    e.month < 1 \/ e.month > 12 \/ e.day < 1 \/ e.day > DaysInMonth(e.year, e.month)

DateErrors == {"InvalidDateError", "TryFromIntError"}

\* C9: a legacy history entry with an impossible date stops the run: the run
\* never gets past it, it ends in a date error when the entry is reached, and
\* no tt_history row is written for it.
C9_InvalidDateFails ==
    \A j \in 1..Len(oldhis) :
        InvalidEntry(oldhis[j]) =>
            /\ ih < j
            /\ Len(Dest.tt_history.rows) < Len(Dest0.tt_history.rows) + j
            /\ status # "done" /\ pc # "finish"
            /\ (status = "aborted" /\ pc = "write_his" /\ ih = j - 1) =>
                  err \in DateErrors

C9_Witness ==
    /\ status = "aborted" /\ pc = "write_his" /\ err = "InvalidDateError"
    /\ ih = 1 /\ Len(oldhis) = 2
    /\ oldhis[2].month = 2 /\ oldhis[2].day = 30
    /\ Len(Dest.tt_history.rows) = Len(Dest0.tt_history.rows) + 1

\* C10 as stated: round6(round6(v)) = round6(v) for every hours value v.
C10_Idempotent_AnyValue ==
    (probe.kind = "round" /\ probe.step = 2) => (probe.r2 = probe.r1)

\* C10 amended: round6(round6(v)) = round6(v) for every v with |v| < 2^30.
C10_Idempotent ==
    (probe.kind = "round" /\ probe.step = 2 /\ BelowPow2(probe.v, 30)) =>
        (probe.r2 = probe.r1)

C10_Witness ==
    /\ probe.kind = "round" /\ probe.step = 2 /\ BelowPow2(probe.v, 30)
    /\ probe.r1 # probe.v /\ probe.r1 # FZero /\ probe.r2 = probe.r1

====
